---- MODULE Spec2Model ----
(***************************************************************************)
(* Model of the result platform's HTTP service (src/app.py): the four      *)
(* tables, the identity tokens handed out by login, and one action per     *)
(* request handler.  register_student is modelled step by step (matric     *)
(* pre-check, email pre-check, insert) so that concurrent registrations    *)
(* interleave; the other handlers run as one step each.                    *)
(*                                                                         *)
(* Text is a sequence of chunks; the chunk ":" is the colon character, so  *)
(* that building and splitting "<role>:<identifier>" is modelled as the    *)
(* code does it.  Scores are fixed-point numbers in tenths (85.0 is 850).  *)
(***************************************************************************)
EXTENDS Integers, Sequences, FiniteSets, TLC

\* ------------------------------------------------------------------ bounds
MaxResults == 2
MaxLogCalls == 3

\* ------------------------------------------------------------ value domains
Colon == ":"
AdminName == <<"admin">>
STU001 == <<"STU001">>
STU2 == <<"STU2">>
STU_C == <<"S", Colon, "3">>
EmptyText == <<>>

Matrics == {STU001, STU2, STU_C}
AdminEmail == "admin@example.com"
JohnEmail == "john@example.com"
Emails == {JohnEmail, "new@student.com"}
AdminPassword == "admin123"
StudentPassword == "student123"
Procs == {"r1", "r2"}

Tenths(n) == n * 10

\* A JSON value sent as a score: a number, a string holding a number, any
\* other string, or null.  v is the number (in tenths) where there is one.
Num(v) == [t |-> "num", v |-> v]
NumStr(v) == [t |-> "numstr", v |-> v]
OtherStr == [t |-> "str", v |-> 0]
Null == [t |-> "null", v |-> 0]

\* The scores the full service is driven with, and the wider set that probes
\* both ends of the range.
ScoreInputs == {Num(Tenths(85)), Num(Tenths(100) + 1), OtherStr}

ScoreProbes ==
    {Num(0 - 1), Num(0), Num(1), Num(Tenths(100) - 1), Num(Tenths(100)),
     Num(Tenths(100) + 1), NumStr(Tenths(85)), NumStr(Tenths(100) + 1), OtherStr, Null}

\* ------------------------------------------------------------------- state
\* admins, students, results, audit: the four tables.  tokens: the identities
\* of the access tokens login has handed out.  reg: each register_student
\* request in flight.  logCalls: how many times log_audit has run.  storeOk:
\* whether the store accepts the next audit_logs commit.  req, resp: the
\* request handled last and its reply.
VARIABLES admins, students, results, audit, tokens, reg, logCalls, storeOk, req, resp

vars == <<admins, students, results, audit, tokens, reg, logCalls, storeOk, req, resp>>

\* ----------------------------------------------------------- pure helpers
\* str.split(':') on a text: the segments between the colons.
RECURSIVE SplitFrom(_, _, _)
SplitFrom(s, i, cur) ==
    IF i > Len(s) THEN <<cur>>
    ELSE IF s[i] = Colon THEN <<cur>> \o SplitFrom(s, i + 1, <<>>)
    ELSE SplitFrom(s, i + 1, Append(cur, s[i]))

Split(s) == SplitFrom(s, 1, <<>>)

\* f"admin:{user.username}" / f"student:{user.matric}"
Identity(role, ident) == <<role, Colon>> \o ident

NoToken == <<>>

\* float(score): ok with the value, or ValueError / TypeError.
Float(s) ==
    CASE s.t = "num" -> [ok |-> TRUE, v |-> s.v]
      [] s.t = "numstr" -> [ok |-> TRUE, v |-> s.v]
      [] s.t = "str" -> [ok |-> FALSE, v |-> 0]
      [] OTHER -> [ok |-> FALSE, v |-> 0]

validate_score_strict(score) ==
    LET f == Float(score) IN
    IF f.ok THEN 0 < f.v /\ f.v < Tenths(100) ELSE FALSE

validate_score(score) ==
    LET f == Float(score) IN
    IF f.ok THEN 0 <= f.v /\ f.v <= Tenths(100) ELSE FALSE

calculate_grade_a90(score) ==
    IF score >= Tenths(90) THEN "A"
    ELSE IF score >= Tenths(60) THEN "B"
    ELSE IF score >= Tenths(50) THEN "C"
    ELSE IF score >= Tenths(45) THEN "D"
    ELSE IF score >= Tenths(40) THEN "E"
    ELSE "F"

calculate_grade_shifted(score) ==
    IF score > Tenths(70) THEN "A"
    ELSE IF score > Tenths(60) THEN "B"
    ELSE IF score > Tenths(50) THEN "C"
    ELSE IF score > Tenths(45) THEN "D"
    ELSE IF score > Tenths(40) THEN "E"
    ELSE "F"

calculate_grade(score) ==
    IF score >= Tenths(70) THEN "A"
    ELSE IF score >= Tenths(60) THEN "B"
    ELSE IF score >= Tenths(50) THEN "C"
    ELSE IF score >= Tenths(45) THEN "D"
    ELSE IF score >= Tenths(40) THEN "E"
    ELSE "F"

\* Result.to_dict: the stored grade, or the derived one when none is stored.
ToDict(r) ==
    [id |-> r.id, matric |-> r.matric, subject |-> r.subject, score |-> r.score,
     grade |-> IF r.grade # "" THEN r.grade ELSE calculate_grade(r.score)]

\* ------------------------------------------------------------------ tables
StudentRows == {students[i] : i \in 1..Len(students)}
StudentByMatricAny(m) == StudentRows

StudentByMatric(m) == {s \in StudentRows : s.matric = m}
StudentByEmail(e) == {s \in StudentRows : s.email = e}
AdminByUsername(u) == {a \in admins : a.username = u}
ResultById(id) == {r \in results : r.id = id}
ResultsByMatric(m) == {r \in results : r.matric = m}
ResultIds == {r.id : r \in results}

\* The id the store gives a new row: one above the largest id in the table.
NextResultId ==
    IF results = {} THEN 1
    ELSE (CHOOSE i \in ResultIds : \A j \in ResultIds : j <= i) + 1

\* The store's unique constraints on students.matric and students.email.
UniqueViolatedNone(m, e) == FALSE

UniqueViolated(m, e) == StudentByMatric(m) # {} \/ StudentByEmail(e) # {}

\* ------------------------------------------------------- requests, replies
NoData ==
    [fields |-> {}, identifier |-> EmptyText, password |-> "", role |-> "",
     matric |-> EmptyText, email |-> "", subject |-> "", score |-> Null, id |-> 0]

\* A request as the properties look at it: the route, the token, the URL
\* parameters (for login and register_student the identifier and the matric
\* of the body) and, once the handler has read it, the body.
Request(op, tok, matric, id) ==
    [op |-> op, tok |-> tok, matric |-> matric, id |-> id, body |-> NoData]

NoRequest == Request("none", NoToken, EmptyText, 0)

Reply(status, err, body) ==
    [status |-> status, err |-> err, body |-> body, token |-> NoToken, logged |-> "no"]

\* The login reply: 200 with the access token.
TokenReply(tok) == [Reply(200, "", {}) EXCEPT !.token = tok]

NoReply == Reply(0, "", {})

\* @jwt_required() then `role, username = current_user.split(':')`: no token
\* is a 401; an identity that does not split in two is a ValueError, which the
\* framework answers with 500.  A token stays good once issued (its one-hour
\* expiry is not modelled).
Guard(tok) ==
    IF tok = NoToken
    THEN [ok |-> FALSE, reply |-> Reply(401, "Missing token", {}),
          role |-> EmptyText, name |-> EmptyText]
    ELSE LET parts == Split(tok) IN
         IF Len(parts) # 2
         THEN [ok |-> FALSE, reply |-> Reply(500, "ValueError", {}),
               role |-> EmptyText, name |-> EmptyText]
         ELSE [ok |-> TRUE, reply |-> NoReply, role |-> parts[1], name |-> parts[2]]

IsAdminRole(g) == g.role = <<"admin">>

AuditEntry(user_type, user_id, action) ==
    [user_type |-> user_type, user_id |-> user_id, action |-> action]

\* log_audit: add the row and commit.  The commit can fail in the store
\* (wrote = FALSE); the exception then reaches the caller.
log_audit_rewrite(wrote, user_type, user_id, action) ==
    IF wrote THEN <<AuditEntry(user_type, user_id, action)>> ELSE audit

log_audit(wrote, user_type, user_id, action) ==
    IF wrote THEN Append(audit, AuditEntry(user_type, user_id, action)) ELSE audit

AuditRoom == logCalls < MaxLogCalls

\* The reply of a handler that ends with log_audit: its own reply when the
\* entry was written, the 500 of the unhandled exception when it was not.
AfterAudit(wrote, reply) ==
    IF wrote THEN [reply EXCEPT !.logged = "written"]
    ELSE [Reply(500, "AuditWriteError", {}) EXCEPT !.logged = "failed"]

\* set_password / check_password: a one-way digest of the password.
Digest(password) == <<"digest", password>>
check_password_lockout(user, password) ==
    /\ user.password_hash = Digest(password)
    /\ \A i \in 1..Len(audit) : audit[i].user_type # "unknown"

check_password(user, password) == user.password_hash = Digest(password)

\* data.get(k) is truthy: the field is there and not empty.
Truthy(data, k) ==
    /\ k \in data.fields
    /\ CASE k = "identifier" -> data.identifier # EmptyText
         [] k = "password" -> data.password # ""
         [] k = "role" -> data.role # ""
         [] OTHER -> TRUE

FailedTag(role) ==
    CASE role = "admin" -> "Failed login attempt as admin"
      [] role = "student" -> "Failed login attempt as student"
      [] OTHER -> "Failed login attempt as other"

\* ------------------------------------------------------------ request bodies
Creds(i, p, r) ==
    [NoData EXCEPT !.fields = {"identifier", "password", "role"},
                   !.identifier = i, !.password = p, !.role = r]

AdminCreds == Creds(AdminName, AdminPassword, "admin")

LoginBodies ==
    {AdminCreds,
     Creds(AdminName, StudentPassword, "admin"),
     Creds(AdminName, AdminPassword, "teacher"),
     Creds(STU001, StudentPassword, "student"),
     Creds(STU_C, StudentPassword, "student"),
     [NoData EXCEPT !.fields = {"identifier"}, !.identifier = AdminName]}

UploadBody(m, s) ==
    [NoData EXCEPT !.fields = {"matric", "subject", "score"},
                   !.matric = m, !.subject = "Math", !.score = s]

UploadBodies(scores) ==
    {UploadBody(m, s) : m \in {STU001, STU2}, s \in scores}
    \cup {[NoData EXCEPT !.fields = {"matric", "subject"},
                         !.matric = STU001, !.subject = "Math"]}

UpdateBodies ==
    {[NoData EXCEPT !.fields = {"subject"}, !.subject = "Physics"]}
    \cup {[NoData EXCEPT !.fields = {"score"}, !.score = s] :
             s \in {Num(Tenths(45)), OtherStr}}
    \cup {[NoData EXCEPT !.fields = {"subject", "score"},
                         !.subject = "Physics", !.score = Num(Tenths(100) + 1)]}

\* Update bodies with and without a subject, with no score and with scores
\* on both sides of each end of the range, numeric and not.
UpdateProbes ==
    {[NoData EXCEPT !.fields = f, !.subject = "Physics"] :
        f \in {{}, {"subject"}}}
    \cup {[NoData EXCEPT !.fields = f \cup {"score"}, !.subject = "Physics", !.score = s] :
             f \in {{}, {"subject"}},
             s \in {Num(0 - 1), Num(0), Num(Tenths(100) + 1), NumStr(Tenths(100) + 1),
                    OtherStr, Null}}

RegisterBody(m, e) ==
    [NoData EXCEPT !.fields = {"name", "matric", "email", "password"},
                   !.matric = m, !.email = e, !.password = StudentPassword]

RegisterBodies ==
    {RegisterBody(m, e) : m \in Matrics, e \in Emails}
    \cup {[NoData EXCEPT !.fields = {"name", "matric", "email"},
                         !.matric = STU2, !.email = "new@student.com"]}

\* Bodies sent to POST /api/auth/register-admin; the username travels in the
\* identifier slot of the body record.
RegisterAdminBody(u, e) ==
    [NoData EXCEPT !.fields = {"username", "email", "password"},
                   !.identifier = u, !.email = e, !.password = AdminPassword]

RegisterAdminBodies ==
    {RegisterAdminBody(<<"admin2">>, "admin2@example.com"),
     RegisterAdminBody(AdminName, "admin2@example.com"),
     RegisterAdminBody(<<"admin2">>, AdminEmail),
     [NoData EXCEPT !.fields = {"username", "email"},
                    !.identifier = <<"admin2">>, !.email = "admin2@example.com"]}

ResultIdInputs == 1..(MaxResults + 1)

\* ------------------------------------------------------------------- Init
Idle == [pc |-> "idle", tok |-> NoToken, data |-> NoData, username |-> EmptyText]

\* The tables as the module leaves them when it is loaded: the default admin
\* and the demo student.
Init ==
    /\ admins = {[username |-> AdminName, email |-> AdminEmail,
                  password_hash |-> Digest(AdminPassword)]}
    /\ students = <<[id |-> 1, matric |-> STU001, email |-> JohnEmail,
                     password_hash |-> Digest(StudentPassword)]>>
    /\ results = {}
    /\ audit = <<>>
    /\ tokens = {}
    /\ reg = [p \in Procs |-> Idle]
    /\ logCalls = 0
    /\ storeOk = TRUE
    /\ req = NoRequest
    /\ resp = NoReply

\* The handler has answered: the request and its reply.
Answer(rq, reply) == req' = rq /\ resp' = reply

\* The handler ends with log_audit and then its reply; the store writes the
\* entry or fails to.
Logged(user_type, user_id, action, rq, reply) ==
    /\ AuditRoom
    /\ logCalls' = logCalls + 1
    /\ audit' = log_audit(storeOk, user_type, user_id, action)
    /\ Answer(rq, AfterAudit(storeOk, reply))

\* --------------------------------------------------------------- handlers
\* POST /api/auth/login
Login(data) ==
    LET rq == [Request("login", NoToken, data.identifier, 0) EXCEPT !.body = data]
        missing == \E k \in {"identifier", "password", "role"} : ~Truthy(data, k)
        adminOk == {u \in AdminByUsername(data.identifier) :
                        check_password(u, data.password)}
        studentOk == {u \in StudentByMatric(data.identifier) :
                        check_password(u, data.password)}
    IN
    /\ UNCHANGED <<admins, students, results, reg, storeOk>>
    /\ IF missing
       THEN /\ Answer(rq, Reply(400, "Missing required fields", {}))
            /\ UNCHANGED <<audit, tokens, logCalls>>
       ELSE IF data.role = "admin" /\ adminOk # {}
       THEN LET user == CHOOSE u \in adminOk : TRUE
                access_token == Identity("admin", user.username)
            IN /\ Logged("admin", user.username, "Login successful", rq,
                         TokenReply(access_token))
               /\ tokens' = IF storeOk THEN tokens \cup {access_token} ELSE tokens
       ELSE IF data.role = "student" /\ studentOk # {}
       THEN LET user == CHOOSE u \in studentOk : TRUE
                access_token == Identity("student", user.matric)
            IN /\ Logged("student", user.matric, "Login successful", rq,
                         TokenReply(access_token))
               /\ tokens' = IF storeOk THEN tokens \cup {access_token} ELSE tokens
       ELSE /\ Logged("unknown", data.identifier, FailedTag(data.role), rq,
                      Reply(401, "Invalid credentials", {}))
            /\ tokens' = tokens

\* GET /api/admin/results
GetAllResults(tok) ==
    LET rq == Request("get_all_results", tok, EmptyText, 0)
        g == Guard(tok)
    IN /\ UNCHANGED <<admins, students, results, audit, tokens, reg, logCalls, storeOk>>
       /\ IF ~g.ok THEN Answer(rq, g.reply)
          ELSE IF ~IsAdminRole(g) THEN Answer(rq, Reply(403, "Unauthorized", {}))
          ELSE Answer(rq, Reply(200, "", {ToDict(r) : r \in results}))

\* POST /api/admin/results
UploadResult(tok, data) ==
    LET rq == [Request("upload_result", tok, EmptyText, 0) EXCEPT !.body = data]
        g == Guard(tok)
        Refuse(reply) == Answer(rq, reply) /\ UNCHANGED <<results, audit, logCalls>>
    IN
    /\ UNCHANGED <<admins, students, tokens, reg, storeOk>>
    /\ IF ~g.ok THEN Refuse(g.reply)
       ELSE IF ~IsAdminRole(g) THEN Refuse(Reply(403, "Unauthorized", {}))
       ELSE IF ~({"matric", "subject", "score"} \subseteq data.fields)
       THEN Refuse(Reply(400, "Missing required fields", {}))
       ELSE IF StudentByMatric(data.matric) = {}
       THEN Refuse(Reply(404, "Student not found", {}))
       ELSE IF ~validate_score(data.score)
       THEN Refuse(Reply(400, "Invalid score", {}))
       ELSE LET score == Float(data.score).v
                result == [id |-> NextResultId, matric |-> data.matric,
                           subject |-> data.subject, score |-> score,
                           grade |-> calculate_grade(score)]
            IN /\ Cardinality(results) < MaxResults
               /\ results' = results \cup {result}
               /\ Logged("admin", g.name, "Uploaded result", rq,
                         Reply(201, "", {ToDict(result)}))

\* update_result: `if 'subject' in data: result.subject = data['subject']`
set_subject(result, data) ==
    IF "subject" \in data.fields THEN [result EXCEPT !.subject = data.subject]
    ELSE result

\* update_result, once the score has passed validate_score: the new score and
\* the grade computed from it.
set_score_stale_grade(result, data) ==
    IF "score" \in data.fields THEN [result EXCEPT !.score = Float(data.score).v]
    ELSE result

set_score(result, data) ==
    IF "score" \in data.fields
    THEN [result EXCEPT !.score = Float(data.score).v,
                        !.grade = calculate_grade(Float(data.score).v)]
    ELSE result

\* The end of a request that returns without a commit: the session is
\* removed, and what it had changed and not committed is dropped.  stored is
\* the table, pending the table as the session's uncommitted changes make it.
shutdown_session_flush(stored, pending) == pending

shutdown_session(stored, pending) == stored

\* PUT /api/admin/results/<id>
UpdateResult(tok, id, data) ==
    LET rq0 == Request("update_result", tok, EmptyText, id)
        rq == [rq0 EXCEPT !.body = data]
        g == Guard(tok)
        old == CHOOSE r \in ResultById(id) : TRUE
        r1 == set_subject(old, data)
        r2 == set_score(r1, data)
        Refuse(reply) == Answer(rq0, reply) /\ UNCHANGED <<results, audit, logCalls>>
    IN
    /\ UNCHANGED <<admins, students, tokens, reg, storeOk>>
    /\ IF ~g.ok THEN Refuse(g.reply)
       ELSE IF ~IsAdminRole(g) THEN Refuse(Reply(403, "Unauthorized", {}))
       ELSE IF ResultById(id) = {} THEN Refuse(Reply(404, "Result not found", {}))
       ELSE IF "score" \in data.fields /\ ~validate_score(data.score)
       THEN /\ results' = shutdown_session(results, (results \ {old}) \cup {r1})
            /\ Answer(rq, Reply(400, "Invalid score", {}))
            /\ UNCHANGED <<audit, logCalls>>
       ELSE /\ results' = (results \ {old}) \cup {r2}
            /\ Logged("admin", g.name, "Updated result", rq,
                      Reply(200, "", {ToDict(r2)}))

\* The rows left in the table once the row of this id is deleted.
RowsKeptAll(id) == results

RowsKept(id) == results \ ResultById(id)

\* DELETE /api/admin/results/<id>
DeleteResult(tok, id) ==
    LET rq == Request("delete_result", tok, EmptyText, id)
        g == Guard(tok)
        Refuse(reply) == Answer(rq, reply) /\ UNCHANGED <<results, audit, logCalls>>
    IN
    /\ UNCHANGED <<admins, students, tokens, reg, storeOk>>
    /\ IF ~g.ok THEN Refuse(g.reply)
       ELSE IF ~IsAdminRole(g) THEN Refuse(Reply(403, "Unauthorized", {}))
       ELSE IF ResultById(id) = {} THEN Refuse(Reply(404, "Result not found", {}))
       ELSE /\ results' = RowsKept(id)
            /\ Logged("admin", g.name, "Deleted result", rq, Reply(200, "", {}))

\* GET /api/student/results/<matric>
GetStudentResults(tok, matric) ==
    LET rq == Request("get_student_results", tok, matric, 0)
        g == Guard(tok)
    IN /\ UNCHANGED <<admins, students, results, audit, tokens, reg, logCalls, storeOk>>
       /\ IF ~g.ok THEN Answer(rq, g.reply)
          ELSE IF g.role = <<"student">> /\ g.name # matric
          THEN Answer(rq, Reply(403, "Unauthorized", {}))
          ELSE IF StudentByMatric(matric) = {}
          THEN Answer(rq, Reply(404, "Student not found", {}))
          ELSE Answer(rq, Reply(200, "", {ToDict(r) : r \in ResultsByMatric(matric)}))

\* POST /api/admin/students, first step: the guard, the field check and the
\* matric pre-check.
RegisterStart(p, tok, data) ==
    LET rq == Request("register_student", tok, data.matric, 0)
        g == Guard(tok)
    IN
    /\ reg[p].pc = "idle"
    /\ UNCHANGED <<admins, students, results, audit, tokens, logCalls, storeOk>>
    /\ IF ~g.ok THEN Answer(rq, g.reply) /\ UNCHANGED reg
       ELSE IF ~IsAdminRole(g)
       THEN Answer(rq, Reply(403, "Unauthorized", {})) /\ UNCHANGED reg
       ELSE IF ~({"name", "matric", "email", "password"} \subseteq data.fields)
       THEN Answer(rq, Reply(400, "Missing required fields", {})) /\ UNCHANGED reg
       ELSE IF StudentByMatric(data.matric) # {}
       THEN Answer(rq, Reply(409, "Student with this matric number already exists", {}))
            /\ UNCHANGED reg
       ELSE /\ reg' = [reg EXCEPT ![p] = [pc |-> "check_email", tok |-> tok,
                                          data |-> data, username |-> g.name]]
            /\ Answer(rq, NoReply)

\* register_student, second step: the email pre-check.
RegisterCheckEmail(p) ==
    LET data == reg[p].data
        rq == Request("register_student", reg[p].tok, data.matric, 0)
    IN
    /\ reg[p].pc = "check_email"
    /\ UNCHANGED <<admins, students, results, audit, tokens, logCalls, storeOk>>
    /\ IF StudentByEmail(data.email) # {}
       THEN /\ Answer(rq, Reply(409, "Student with this email already exists", {}))
            /\ reg' = [reg EXCEPT ![p] = Idle]
       ELSE /\ Answer(rq, NoReply)
            /\ reg' = [reg EXCEPT ![p].pc = "insert"]

\* register_student, last step: add the row, commit, write the audit entry.
RegisterInsert(p) ==
    LET data == reg[p].data
        rq == Request("register_student", reg[p].tok, data.matric, 0)
        student == [id |-> Len(students) + 1, matric |-> data.matric,
                    email |-> data.email, password_hash |-> Digest(data.password)]
    IN
    /\ reg[p].pc = "insert"
    /\ UNCHANGED <<admins, results, tokens, storeOk>>
    /\ IF UniqueViolated(data.matric, data.email)
       THEN /\ Answer(rq, Reply(500, "IntegrityError", {}))
            /\ reg' = [reg EXCEPT ![p] = Idle]
            /\ UNCHANGED <<students, audit, logCalls>>
       ELSE /\ students' = Append(students, student)
            /\ reg' = [reg EXCEPT ![p] = Idle]
            /\ Logged("admin", reg[p].username, "Registered new student", rq,
                      Reply(201, "", {}))

\* GET /api/init-database: create the default admin and the demo student
\* where they are missing.
InitDatabase ==
    LET rq == Request("init_database", NoToken, EmptyText, 0)
        admin == [username |-> AdminName, email |-> AdminEmail,
                  password_hash |-> Digest(AdminPassword)]
        student == [id |-> Len(students) + 1, matric |-> STU001, email |-> JohnEmail,
                    password_hash |-> Digest(StudentPassword)]
    IN
    /\ UNCHANGED <<results, audit, tokens, reg, logCalls, storeOk>>
    /\ admins' = IF AdminByUsername(AdminName) = {} THEN admins \cup {admin} ELSE admins
    /\ IF StudentByMatric(STU001) # {}
       THEN Answer(rq, Reply(200, "", {})) /\ UNCHANGED students
       ELSE IF UniqueViolated(STU001, JohnEmail)
       THEN Answer(rq, Reply(500, "IntegrityError", {})) /\ UNCHANGED students
       ELSE Answer(rq, Reply(200, "", {})) /\ students' = Append(students, student)

\* POST /api/auth/register-admin: the application defines no such route, so
\* the framework answers 404 and no handler runs.
RegisterAdmin(data) ==
    LET rq == [Request("register_admin", NoToken, data.identifier, 0)
                  EXCEPT !.body = data]
    IN /\ Answer(rq, Reply(404, "Not Found", {}))
       /\ UNCHANGED <<admins, students, results, audit, tokens, reg, logCalls, storeOk>>

\* Result.to_dict of a row that has a score and no stored grade yet: the
\* grade is derived on the spot.
GradeOf(score) ==
    LET unsaved == [id |-> 0, matric |-> EmptyText, subject |-> "", score |-> score,
                    grade |-> ""]
    IN /\ Answer(Request("calculate_grade", NoToken, EmptyText, 0),
                 Reply(200, "", {ToDict(unsaved)}))
       /\ UNCHANGED <<admins, students, results, audit, tokens, reg, logCalls, storeOk>>

\* The store starts or stops refusing the audit_logs commit.
StoreFault ==
    /\ storeOk' = ~storeOk
    /\ UNCHANGED <<admins, students, results, audit, tokens, reg, logCalls, req, resp>>

\* ------------------------------------------------------ the specifications
\* What a request can carry: no token, or a token login has handed out.
Carried == tokens \cup {NoToken}

\* No register_student request is between two of its steps.
Quiet == \A p \in Procs : reg[p].pc = "idle"

\* The service behind one worker: a request is handled to its end before the
\* next one starts.
Next ==
    \/ Quiet /\ \E d \in LoginBodies : Login(d)
    \/ Quiet /\ \E t \in Carried : GetAllResults(t)
    \/ Quiet /\ \E t \in Carried, d \in UploadBodies(ScoreInputs) : UploadResult(t, d)
    \/ Quiet /\ \E t \in Carried, i \in ResultIdInputs, d \in UpdateBodies :
                  UpdateResult(t, i, d)
    \/ Quiet /\ \E t \in Carried, i \in ResultIdInputs : DeleteResult(t, i)
    \/ Quiet /\ \E t \in Carried, m \in Matrics : GetStudentResults(t, m)
    \/ Quiet /\ \E t \in Carried, d \in RegisterBodies : RegisterStart("r1", t, d)
    \/ RegisterCheckEmail("r1")
    \/ RegisterInsert("r1")
    \/ Quiet /\ InitDatabase

Spec == Init /\ [][Next]_vars

\* The same service over a store whose audit_logs commit can fail.
NextFaulty == Next \/ StoreFault

SpecFaulty == Init /\ [][NextFaulty]_vars

\* Several workers: register_student requests of the admin interleave step
\* by step.
NextRace ==
    \/ Login(AdminCreds)
    \/ \E p \in Procs, t \in Carried, d \in RegisterBodies : RegisterStart(p, t, d)
    \/ \E p \in Procs : RegisterCheckEmail(p)
    \/ \E p \in Procs : RegisterInsert(p)

SpecRace == Init /\ [][NextRace]_vars

\* The admin uploads scores around both ends of the range.
NextScores ==
    \/ Login(AdminCreds)
    \/ \E t \in Carried, d \in UploadBodies(ScoreProbes) : UploadResult(t, d)

SpecScores == Init /\ [][NextScores]_vars

\* The unauthenticated side of the service: logins, right and wrong, the
\* database initialisation and requests to register an admin.
NextAuth ==
    \/ \E d \in LoginBodies : Login(d)
    \/ \E d \in RegisterAdminBodies : RegisterAdmin(d)
    \/ InitDatabase

SpecAuth == Init /\ [][NextAuth]_vars

\* The admin uploads results and updates them with good and bad bodies, and
\* reads the list.
NextUpdates ==
    \/ Login(AdminCreds)
    \/ \E t \in Carried : UploadResult(t, UploadBody(STU001, Num(Tenths(85))))
    \/ \E t \in Carried, i \in ResultIdInputs, d \in UpdateProbes : UpdateResult(t, i, d)
    \/ \E t \in Carried : GetAllResults(t)

SpecUpdates == Init /\ [][NextUpdates]_vars

\* The grade of every score from one point below the range to one above it.
GradeInputs == (0 - Tenths(1))..(Tenths(100) + Tenths(1))

NextGrade == \E s \in GradeInputs : GradeOf(s)

SpecGrade == Init /\ [][NextGrade]_vars

\* ------------------------------------------------------------- the properties
AdminOps ==
    {"get_all_results", "upload_result", "update_result", "delete_result",
     "register_student"}

\* The token was issued by login for this role.
IssuedFor(role, tok) == Len(tok) >= 2 /\ tok[1] = role /\ tok[2] = Colon

\* The step has answered a request.
Replied == resp.status # 0

\* C1: on every admin-only route a request with an admin token is let in, one
\* with no token gets 401, one with a student token gets 403, and a request
\* that is turned away changes no Student or Result row.
C1_AdminOnlyRoutes ==
    [][(req'.op \in AdminOps /\ resp'.status # 0) =>
        /\ req'.tok = NoToken => resp'.status = 401
        /\ IssuedFor("student", req'.tok) => resp'.status = 403
        /\ IssuedFor("admin", req'.tok) => resp'.status \notin {401, 403}
        /\ resp'.status \in {401, 403} => students' = students /\ results' = results
      ]_vars

\* C2: the token login issued for student M reads GET /api/student/results/M
\* (200, exactly the rows of M) and is refused any other matric with 403,
\* whether that student exists or not; an admin token reads every existing
\* matric.
C2_StudentReadsOwnResults ==
    (req.op = "get_student_results" /\ Replied) =>
        /\ \A s \in StudentRows :
              req.tok = Identity("student", s.matric) =>
                 IF req.matric = s.matric
                 THEN /\ resp.status = 200
                      /\ resp.body = {ToDict(r) : r \in {x \in results : x.matric = s.matric}}
                 ELSE resp.status = 403
        /\ (IssuedFor("admin", req.tok) /\ \E s \in StudentRows : s.matric = req.matric)
              => resp.status = 200

NoDuplicateStudents ==
    \A i, j \in 1..Len(students) :
        i # j => /\ students[i].matric # students[j].matric
                 /\ students[i].email # students[j].email

\* C3: under every interleaving of register_student requests no two Student
\* rows share a matric or an email; a request that passed both pre-checks and
\* reaches its insert when the matric or the email is taken fails (500 from the
\* store's unique constraint) and adds no row, and one that reaches it when
\* both are free adds exactly its own row.
C3_UniqueUnderRace ==
    /\ NoDuplicateStudents
    /\ [][/\ NoDuplicateStudents'
          /\ \A p \in Procs :
               (reg[p].pc = "insert" /\ reg'[p].pc = "idle") =>
                  IF \E s \in StudentRows :
                        s.matric = reg[p].data.matric \/ s.email = reg[p].data.email
                  THEN /\ students' = students
                       /\ resp'.status = 500
                       /\ resp'.err = "IntegrityError"
                  ELSE /\ Len(students') = Len(students) + 1
                       /\ SubSeq(students', 1, Len(students)) = students
                       /\ students'[Len(students')].matric = reg[p].data.matric
                       /\ students'[Len(students')].email = reg[p].data.email
                       /\ resp'.status = 201
       ]_vars

C3_Witness ==
    /\ req.op = "register_student"
    /\ resp.status = 500
    /\ resp.err = "IntegrityError"
    /\ Len(students) = 2

AuditedOps ==
    {"login", "upload_result", "update_result", "delete_result", "register_student"}

\* C4: every successful login and every successful register, upload, update
\* and delete adds exactly one AuditLog row, and no step changes or removes a
\* row the log already holds.
C4_OneAuditRowAppendOnly ==
    [][/\ Len(audit') >= Len(audit)
       /\ SubSeq(audit', 1, Len(audit)) = audit
       /\ (req'.op \in AuditedOps /\ resp'.status \in {200, 201}) =>
             Len(audit') = Len(audit) + 1
      ]_vars

C4_Witness ==
    /\ req.op = "delete_result"
    /\ resp.status = 200
    /\ Len(audit) = 3
    /\ audit[3].action = "Deleted result"

\* C5: when the audit entry cannot be written the request still gets its own
\* reply (the login its token with 200), never a server error.
C5_AuditFailureTolerated ==
    resp.logged = "failed" =>
        /\ resp.status # 500
        /\ (req.op = "login" /\ resp.status = 200) => resp.token # NoToken

InRange(s) == s.t \in {"num", "numstr"} /\ 0 <= s.v /\ s.v <= Tenths(100)

\* The admin's upload has every field and names an existing student.
WellFormedUpload(rq) ==
    /\ rq.op = "upload_result"
    /\ IssuedFor("admin", rq.tok)
    /\ {"matric", "subject", "score"} \subseteq rq.body.fields
    /\ \E s \in StudentRows : s.matric = rq.body.matric

\* C7: an admin's upload with every field for an existing student is accepted
\* (201, one Result row more) exactly when the score is from 0 to 100, both
\* ends included; any other score, numeric or not, gets 400 and no row.
C7_ScoreRange ==
    [][WellFormedUpload(req') =>
          IF InRange(req'.body.score)
          THEN /\ resp'.status = 201
               /\ results \subseteq results'
               /\ Cardinality(results') = Cardinality(results) + 1
          ELSE /\ resp'.status = 400
               /\ results' = results
      ]_vars

C7_Witness ==
    /\ req.op = "upload_result"
    /\ req.body.score = Num(Tenths(100))
    /\ resp.status = 201
    /\ \E r \in resp.body : r.score = Tenths(100)
    /\ \E r \in results : r.score = 0

Rank(g) ==
    CASE g = "A" -> 5 [] g = "B" -> 4 [] g = "C" -> 3 [] g = "D" -> 2
      [] g = "E" -> 1 [] OTHER -> 0

\* C8: the grade of a score is A from 70, B from 60 to below 70, C from 50 to
\* below 60, D from 45 to below 50, E from 40 to below 45 and F below 40; 70
\* is an A and 69.9 a B; a lower score never has a better grade.
C8_GradeBands ==
    req.op = "calculate_grade" =>
        \A r \in resp.body :
            /\ r.grade \in {"A", "B", "C", "D", "E", "F"}
            /\ r.grade = "A" <=> r.score >= Tenths(70)
            /\ r.grade = "B" <=> (Tenths(60) <= r.score /\ r.score < Tenths(70))
            /\ r.grade = "C" <=> (Tenths(50) <= r.score /\ r.score < Tenths(60))
            /\ r.grade = "D" <=> (Tenths(45) <= r.score /\ r.score < Tenths(50))
            /\ r.grade = "E" <=> (Tenths(40) <= r.score /\ r.score < Tenths(45))
            /\ r.grade = "F" <=> r.score < Tenths(40)
            /\ r.score = Tenths(70) => r.grade = "A"
            /\ r.score = Tenths(70) - 1 => r.grade = "B"
            /\ \A s \in GradeInputs :
                  s < r.score => Rank(calculate_grade(s)) <= Rank(r.grade)

C8_Witness ==
    /\ req.op = "calculate_grade"
    /\ \E r \in resp.body : r.score = Tenths(70) - 1 /\ r.grade = "B"

\* The student's own read of the results of their matric, answered.
OwnRead ==
    /\ req.op = "get_student_results"
    /\ req.tok = Identity("student", req.matric)
    /\ resp.status = 200

C10_DuplicateMatricIs400 ==
    [][(/\ req'.op = "register_student"
        /\ resp'.status # 0
        /\ IssuedFor("admin", req'.tok)
        /\ \E s \in StudentRows : s.matric = req'.matric) =>
          /\ resp'.status = 400
          /\ students' = students
      ]_vars

\* The login request has its three fields, none of them empty.
CompleteLogin(rq) ==
    /\ rq.op = "login"
    /\ \A k \in {"identifier", "password", "role"} : Truthy(rq.body, k)

\* The body names an Admin (role admin) or a Student (role student) and
\* carries that row's password.
RightCredentials(d) ==
    \/ /\ d.role = "admin"
       /\ \E a \in admins :
             a.username = d.identifier /\ a.password_hash = Digest(d.password)
    \/ /\ d.role = "student"
       /\ \E s \in StudentRows :
             s.matric = d.identifier /\ s.password_hash = Digest(d.password)

FailedTags ==
    {"Failed login attempt as admin", "Failed login attempt as student",
     "Failed login attempt as other"}

\* C11: a login with its three fields that names no such user, a wrong
\* password or a role other than admin and student is answered 401 with no
\* token and adds exactly one audit entry, a failed login attempt of user type
\* "unknown" for that identifier; a login with the right credentials gets 200
\* and a token whatever failed attempts the log already holds.
C11_FailedLoginNoLockout ==
    [][CompleteLogin(req') =>
          IF RightCredentials(req'.body)
          THEN /\ resp'.status = 200
               /\ resp'.token # NoToken
               /\ resp'.token \in tokens'
          ELSE /\ resp'.status = 401
               /\ resp'.token = NoToken
               /\ tokens' = tokens
               /\ Len(audit') = Len(audit) + 1
               /\ SubSeq(audit', 1, Len(audit)) = audit
               /\ audit'[Len(audit')].user_type = "unknown"
               /\ audit'[Len(audit')].user_id = req'.body.identifier
               /\ audit'[Len(audit')].action \in FailedTags
      ]_vars

C11_Witness ==
    /\ req.op = "login"
    /\ resp.status = 200
    /\ resp.token = Identity("admin", AdminName)
    /\ Len(audit) = 3
    /\ \A i \in {1, 2} :
          audit[i].user_type = "unknown" /\ audit[i].user_id = AdminName
    /\ audit[1].action # audit[2].action
    /\ audit[3].action = "Login successful"

\* C12: POST /api/auth/register-admin needs no token; with username, email
\* and password present and neither username nor email in use it answers 201,
\* adds that Admin row and the audit entry "Admin registered"; with a field
\* missing or a username or email in use it answers 400 and adds no Admin row.
C12_RegisterAdmin ==
    [][req'.op = "register_admin" =>
          IF /\ {"username", "email", "password"} \subseteq req'.body.fields
             /\ \A a \in admins :
                   a.username # req'.body.identifier /\ a.email # req'.body.email
          THEN /\ resp'.status = 201
               /\ admins \subseteq admins'
               /\ Cardinality(admins') = Cardinality(admins) + 1
               /\ \E a \in admins' : a.username = req'.body.identifier
               /\ Len(audit') = Len(audit) + 1
               /\ audit'[Len(audit')].action = "Admin registered"
          ELSE /\ resp'.status = 400
               /\ admins' = admins
      ]_vars

\* Every Result row names the matric of a Student row.
ResultsHaveStudents ==
    \A r \in results : \E i \in 1..Len(students) : students[i].matric = r.matric

\* C13: every Result row's matric is the matric of a Student row.  An upload
\* naming a matric no Student has adds no Result row and no audit row, and is
\* answered 404 when an admin sends it with its three fields, whether its
\* score is valid or not; no step removes or changes a Student row, and no
\* step changes the matric of a Result row.
C13_ResultsHaveStudents ==
    /\ ResultsHaveStudents
    /\ [][/\ ResultsHaveStudents'
          /\ Len(students') >= Len(students)
          /\ SubSeq(students', 1, Len(students)) = students
          /\ \A r \in results, x \in results' : x.id = r.id => x.matric = r.matric
          /\ (/\ req'.op = "upload_result"
              /\ "matric" \in req'.body.fields
              /\ \A i \in 1..Len(students) : students[i].matric # req'.body.matric) =>
                /\ resp'.status # 201
                /\ results' = results
                /\ audit' = audit
                /\ (/\ IssuedFor("admin", req'.tok)
                    /\ {"matric", "subject", "score"} \subseteq req'.body.fields) =>
                      resp'.status = 404
       ]_vars

C13_Witness ==
    /\ req.op = "upload_result"
    /\ req.body.matric = STU2
    /\ req.body.score = OtherStr
    /\ resp.status = 404
    /\ results # {}
    /\ \A i \in 1..Len(students) : students[i].matric # STU2

\* Every stored score is from 0 to 100 and every stored grade is the grade of
\* the stored score.
GradesMatchScores ==
    \A r \in results :
        /\ 0 <= r.score /\ r.score <= Tenths(100)
        /\ r.grade = calculate_grade(r.score)

\* The update of this step was carried out.
Updated(rq, reply) == rq.op = "update_result" /\ reply.status = 200

\* C14: every stored Result row has a score from 0 to 100 and the grade of
\* that score.  An update that carries a score stores that score and its
\* grade in the row of the id; an update that carries only a subject leaves
\* the score and the grade of every row as they were.
C14_StoredGradeMatchesScore ==
    /\ GradesMatchScores
    /\ [][/\ GradesMatchScores'
          /\ (Updated(req', resp') /\ "score" \in req'.body.fields) =>
                \E x \in results' :
                    /\ x.id = req'.id
                    /\ x.score = req'.body.score.v
                    /\ x.grade = calculate_grade(req'.body.score.v)
          /\ (Updated(req', resp') /\ "score" \notin req'.body.fields) =>
                /\ Cardinality(results') = Cardinality(results)
                /\ \A r \in results : \E x \in results' :
                       x.id = r.id /\ x.score = r.score /\ x.grade = r.grade
       ]_vars

C14_Witness ==
    /\ Updated(req, resp)
    /\ req.body.fields = {"score"}
    /\ \E x \in results : x.id = req.id /\ x.score = Tenths(45) /\ x.grade = "D"
    /\ \E i \in 1..Len(audit) : audit[i].action = "Uploaded result"
    /\ audit[Len(audit)].action = "Updated result"

\* An admin's update of an existing id that carries a score which is not a
\* number from 0 to 100.
BadScoreUpdate(rq) ==
    /\ rq.op = "update_result"
    /\ IssuedFor("admin", rq.tok)
    /\ \E r \in results : r.id = rq.id
    /\ "score" \in rq.body.fields
    /\ ~InRange(rq.body.score)

\* C15: an admin's update of an existing id with a score outside 0..100 or
\* not numeric is answered 400 and changes no Result row, not the subject
\* either when the body carries a new one, and adds no audit row; and a row
\* changes only in the step of a carried-out update of its id, its subject
\* only to the subject that update carries, so no later commit stores the
\* subject of a refused update.
C15_RefusedUpdateLeavesRow ==
    [][/\ BadScoreUpdate(req') =>
            /\ resp'.status = 400
            /\ results' = results
            /\ audit' = audit
       /\ \A r \in results, x \in results' :
            (x.id = r.id /\ x # r) =>
                /\ Updated(req', resp')
                /\ req'.id = r.id
                /\ x.subject # r.subject =>
                      /\ "subject" \in req'.body.fields
                      /\ x.subject = req'.body.subject
      ]_vars

C15_Witness ==
    /\ req.op = "update_result"
    /\ resp.status = 400
    /\ req.body.fields = {"subject", "score"}
    /\ req.body.subject = "Physics"
    /\ req.body.score = Num(Tenths(100) + 1)
    /\ \E r \in results : r.id = req.id /\ r.subject = "Math"
====
